---------------------------- MODULE Spec2Model ----------------------------
(***************************************************************************)
(* A model of the batepapo-uol chat API (src/unnamed/part_000, the full    *)
(* server; src/index.js and src/unnamed/part_001 are earlier states of the *)
(* same file).  The store is two collections, participants and messages.   *)
(* Every route handler is an async function: each `await` on a store call  *)
(* is one atomic step of the model (the store executes the call, and the   *)
(* handler's continuation runs up to its next store call), so handlers of  *)
(* concurrent requests and cycles of inactiveUser interleave at the awaits.*)
(* Store calls are assumed not to fail (the catch/500 branches are taken   *)
(* only where the handler itself throws, on a malformed ObjectId).         *)
(*                                                                         *)
(* Strings are sequences of tokens: a token is one character, or one whole *)
(* markup tag ("<b>", three characters long).  Time is counted in units of *)
(* 5000 ms, the common divisor of the two periods of the code.             *)
(***************************************************************************)
EXTENDS Integers, Sequences, FiniteSets, TLC

----------------------------------------------------------------------------
(* Bounds of the model *)

\* request handlers that may be in flight at once
NumProcs == 2
\* cycles of inactiveUser that may be in flight at once
NumReapers == 2
\* SpecRoom: requests admitted, and when the clock stops
RoomReqs == 2
RoomTime == 6
\* SpecPresence: requests admitted, and when the clock stops
PresenceReqs == 4
PresenceTime == 6
\* SpecChat: requests admitted, and when the clock stops
ChatReqs == 3
ChatTime == 3
\* SpecList: the longest message collection drawn
ListLen == 3
\* Spec: requests admitted, and when the clock stops
AllReqs == 3
AllTime == 3
\* SpecTrip: requests admitted, and when the clock stops
TripReqs == 5
TripTime == 1
\* SpecReturn: requests admitted, and when the clock stops
ReturnReqs == 4
ReturnTime == 3

----------------------------------------------------------------------------
(* Program constants, in units of 5000 ms *)

\* const toMilliseconds = 10 * 1000
toMilliseconds == 2
\* setInterval(inactiveUser, 15000)
ReapPeriod == 3
\* joi: min(3), max(20)
MinLen == 3
MaxLen == 20

----------------------------------------------------------------------------
(* Strings *)

Tag == "<b>"
Space == " "

\* characters of a token: a tag counts its three characters, the word
\* "Todos" its five, a character one
TokLen(c) == IF c = Tag THEN 3 ELSE IF c = "Todos" THEN 5 ELSE 1

RECURSIVE StrLen(_)
StrLen(s) == IF s = <<>> THEN 0 ELSE TokLen(Head(s)) + StrLen(Tail(s))

\* stripHtml(x).result: the markup tags are removed
StripHtml(s) == SelectSeq(s, LAMBDA c : c # Tag)

RECURSIVE TrimLeft(_)
TrimLeft(s) == IF s # <<>> /\ Head(s) = Space THEN TrimLeft(Tail(s)) ELSE s

RECURSIVE TrimRight(_)
TrimRight(s) ==
    IF s # <<>> /\ s[Len(s)] = Space THEN TrimRight(SubSeq(s, 1, Len(s) - 1)) ELSE s

\* String.prototype.trim
Trim(s) == TrimRight(TrimLeft(s))

\* stripHtml(x).result.trim()
Sanitize(s) == Trim(StripHtml(s))

\* case folding of the "i" option
Lower(c) == IF c = "A" THEN "a" ELSE IF c = "N" THEN "n" ELSE c

\* The pattern pat matched at position j of s.  A letter matches itself in
\* either case; "^" is the start-of-input assertion and consumes nothing.
RECURSIVE MatchAt(_, _, _, _)
MatchAt(pat, i, s, j) ==
    IF i > Len(pat) THEN TRUE
    ELSE IF pat[i] = "^" THEN j = 1 /\ MatchAt(pat, i + 1, s, j)
    ELSE /\ j <= Len(s)
         /\ Lower(s[j]) = Lower(pat[i])
         /\ MatchAt(pat, i + 1, s, j + 1)

\* { $regex: pat, $options: "i" }: an unanchored, case-insensitive search
RegexMatch(pat, s) == \E j \in 1..(Len(s) + 1) : MatchAt(pat, 1, s, j)

\* Number.parseInt of a query string: optional sign, then the leading digits;
\* NaN when there are none (also for a missing parameter)
IsDigit(c) == c \in {"0", "1", "2", "3"}
DigitVal(c) == CASE c = "0" -> 0 [] c = "1" -> 1 [] c = "2" -> 2 [] c = "3" -> 3

RECURSIVE ParseDigits(_, _)
ParseDigits(s, acc) ==
    IF s # <<>> /\ IsDigit(Head(s))
    THEN ParseDigits(Tail(s), 10 * acc + DigitVal(Head(s)))
    ELSE acc

ParseInt(q) ==
    LET t    == TrimLeft(q)
        neg  == t # <<>> /\ Head(t) = "-"
        body == IF neg THEN Tail(t) ELSE t
    IN  IF body = <<>> \/ ~IsDigit(Head(body))
        THEN [nan |-> TRUE, val |-> 0]
        ELSE [nan |-> FALSE,
              val |-> IF neg THEN 0 - ParseDigits(body, 0) ELSE ParseDigits(body, 0)]

\* dayjs().format("HH:mm:ss"): the time of day
DayLen == 17280
FormatTime(t) == t % DayLen

----------------------------------------------------------------------------
(* Inputs of the requests *)

NameAnn == <<"a", "n", "n">>
NameAnna == <<"A", "n", "n", "a">>
NameHat == <<"^", "a", "n">>
NameAn == <<"a", "n">>
Todos == <<"Todos">>
EnterText == <<"entra na sala...">>
LeaveText == <<"sai da sala...">>
TypeMessage == <<"message">>
TypePrivate == <<"private_message">>
TypeStatus == <<"status">>

\* req.body.name of POST /participants
RawNames ==
    { NameAnn, NameAnna, NameHat, <<Space>> \o NameAnn, <<Tag>> \o NameAn, NameAn }

\* req.headers.user
Users == { NameAnn, NameAnna, NameHat, NameAn }

\* req.body of POST /messages and PUT /messages/:id
Bodies ==
    { [ to |-> Todos, text |-> <<"h", "i">>, type |-> TypeMessage ],
      [ to |-> <<Tag>> \o NameAnn, text |-> <<Tag, "o", "i">>, type |-> TypePrivate ],
      [ to |-> Todos, text |-> <<"h", "i">>, type |-> TypeStatus ] }

\* req.query.limit (the empty string stands for a missing parameter)
LimitQueries ==
    { <<>>, <<"0">>, <<"-", "1">>, <<"1">>, <<"2">>, <<"3">>, <<"2", "x">>, <<"x">> }

\* an id that is no ObjectId, and a well-formed id of no document
BadId == 0 - 1
AbsentId == 0

----------------------------------------------------------------------------
(* Schemas *)

\* participantSchema.validate(req.body)
ValidParticipant(raw) == StrLen(raw) >= MinLen /\ StrLen(raw) <= MaxLen

\* a wrong variant: a schema that admits every type
ValidMessageAnyType(b) ==
    /\ StrLen(b.to) >= MinLen /\ StrLen(b.to) <= MaxLen
    /\ StrLen(b.text) >= 1

\* messageSchema.validate(req.body)
ValidMessage(b) ==
    /\ StrLen(b.to) >= MinLen /\ StrLen(b.to) <= MaxLen
    /\ StrLen(b.text) >= 1
    /\ b.type \in { TypeMessage, TypePrivate }

----------------------------------------------------------------------------
(* Store calls and array methods *)

Min(a, b) == IF a <= b THEN a ELSE b

RECURSIVE Reverse(_)
Reverse(s) == IF s = <<>> THEN <<>> ELSE Append(Reverse(Tail(s)), Head(s))

\* Array.prototype.slice(0, n), n > 0
Slice(s, n) == SubSeq(s, 1, Min(n, Len(s)))

\* participantCollection.findOne({ name: { $regex: pat, $options: "i" } })
RegexExists(P, pat) == \E i \in 1..Len(P) : RegexMatch(pat, P[i].name)

\* a wrong variant: the sender looked up as POST /participants looks a name up
NameExistsLoosely(P, user) == RegexExists(P, user)

\* participantCollection.findOne({ name: user })
NameExists(P, user) == \E i \in 1..Len(P) : P[i].name = user

\* the document that findOne({ name: user }) returns: the first of that name
FindOneName(P, user) ==
    P[CHOOSE i \in 1..Len(P) : P[i].name = user /\ \A j \in 1..(i - 1) : P[j].name # user]

\* a wrong variant: an update of every participant
SetLastStatusAll(P, user, ts) == [ i \in 1..Len(P) |-> [P[i] EXCEPT !.lastStatus = ts] ]

\* a wrong variant: an update that drops the participant
SetLastStatusDrop(P, user, ts) == SelectSeq(P, LAMBDA d : d.name # user)

\* participantCollection.updateOne({ name: user }, { $set: { lastStatus: ts } }):
\* the first document that matches, if any
SetLastStatus(P, user, ts) ==
    IF ~NameExists(P, user) THEN P
    ELSE LET k == CHOOSE i \in 1..Len(P) :
                    /\ P[i].name = user
                    /\ \A j \in 1..(i - 1) : P[j].name # user
         IN  [P EXCEPT ![k].lastStatus = ts]

\* a wrong variant: the comparison is off by one unit
FindInactiveLate(P, treshold) == SelectSeq(P, LAMBDA d : d.lastStatus + 1 < treshold)

\* participantCollection.find({ lastStatus: { $lt: treshold } }).toArray()
FindInactive(P, treshold) == SelectSeq(P, LAMBDA d : d.lastStatus < treshold)

\* inactiveUsers.map((user) => user.name)
RECURSIVE NamesOf(_)
NamesOf(P) == IF P = <<>> THEN <<>> ELSE <<Head(P).name>> \o NamesOf(Tail(P))

Range(s) == { s[i] : i \in 1..Len(s) }

\* participantCollection.deleteMany({ name: { $in: names } })
DeleteManyNames(P, names) == SelectSeq(P, LAMBDA d : d.name \notin Range(names))

\* a wrong variant: the filter without its { to: user } clause
FindVisibleNoRecipient(M, user) ==
    SelectSeq(M, LAMBDA m : \/ m.from = user
                            \/ m.type = TypeMessage
                            \/ m.type = TypeStatus)

\* messageCollection.find({ $or: [{from: user}, {to: user}, {type: "message"},
\* {type: "status"}] }).toArray()
FindVisible(M, user) ==
    SelectSeq(M, LAMBDA m : \/ m.from = user
                            \/ m.to = user
                            \/ m.type = TypeMessage
                            \/ m.type = TypeStatus)

\* a wrong variant: the limited listing of src/unnamed/part_001, sliced and not
\* reversed back
ListBodyNewestFirst(found, limit) ==
    LET orderedMessages == Reverse(found)
    IN  IF limit.nan \/ limit.val = 0 \/ limit.val <= 0
        THEN orderedMessages
        ELSE Slice(orderedMessages, limit.val)

\* The body GET /messages sends.  messages.reverse() reverses the array in
\* place, so `messages` and `orderedMessages` are the same reversed array.
ListBody(found, limit) ==
    LET orderedMessages == Reverse(found)
    IN  IF limit.nan \/ limit.val = 0 \/ limit.val <= 0
        THEN orderedMessages
        ELSE Reverse(Slice(orderedMessages, limit.val))

MessageExists(M, id) == \E i \in 1..Len(M) : M[i].id = id

\* messageCollection.findOne({ _id: new ObjectId(id) })
MessageById(M, id) == M[CHOOSE i \in 1..Len(M) : M[i].id = id]

\* a check that lets every requester through
IsOwnerAnyone(m, user) == TRUE

\* messageExists.from !== user is false
IsOwner(m, user) == m.from = user

\* a delete of every message of the author of the message id
DeleteManyFrom(M, id) ==
    SelectSeq(M, LAMBDA m : \A i \in 1..Len(M) : M[i].id = id => m.from # M[i].from)

\* messageCollection.deleteOne({ _id: new ObjectId(id) })
DeleteOneId(M, id) == SelectSeq(M, LAMBDA m : m.id # id)

\* a wrong variant: an update that keeps the time of the message
UpdateOneIdKeepTime(M, id, user, b, time) ==
    [ i \in 1..Len(M) |->
        IF M[i].id # id THEN M[i]
        ELSE [ id   |-> M[i].id,
               from |-> Sanitize(user),
               to   |-> Sanitize(b.to),
               text |-> Sanitize(b.text),
               type |-> Sanitize(b.type),
               time |-> M[i].time ] ]

\* messageCollection.updateOne({ _id: id }, { $set: fields })
UpdateOneId(M, id, user, b, time) ==
    [ i \in 1..Len(M) |->
        IF M[i].id # id THEN M[i]
        ELSE [ id   |-> M[i].id,
               from |-> Sanitize(user),
               to   |-> Sanitize(b.to),
               text |-> Sanitize(b.text),
               type |-> Sanitize(b.type),
               time |-> time ] ]

\* a wrong variant: leave messages of type message
LeaveMessagesAsChat(names, firstId, time) ==
    [ i \in 1..Len(names) |->
        [ id   |-> firstId + i - 1,
          from |-> names[i],
          to   |-> Todos,
          text |-> LeaveText,
          type |-> TypeMessage,
          time |-> time ] ]

\* the leave messages of a cycle, with the ids the store gives them
LeaveMessages(names, firstId, time) ==
    [ i \in 1..Len(names) |->
        [ id   |-> firstId + i - 1,
          from |-> names[i],
          to   |-> Todos,
          text |-> LeaveText,
          type |-> TypeStatus,
          time |-> time ] ]

----------------------------------------------------------------------------
(* State *)

VARIABLES
    participants,   \* participantCollection, in the store's natural order
    messages,       \* messageCollection, in the store's natural order
    nextId,         \* the next _id the store gives
    now,            \* Date.now()
    nextFire,       \* when the setInterval timer fires next
    pc,             \* per request handler: the await it is suspended at
    loc,            \* per request handler: its local variables
    rpc,            \* per cycle of inactiveUser: the await it is suspended at
    rloc,           \* per cycle of inactiveUser: its local variables
    out,            \* the response sent by the step just taken, if any
    budget,         \* requests the model still admits
    horizon,        \* when the model's clock stops
    fresh           \* per name, while its client has kept pinging in time:
                    \* when its latest answered register or ping began, and
                    \* whether a ping of it was answered 200 (else Lapsed)

vars ==
    << participants, messages, nextId, now, nextFire, pc, loc, rpc, rloc, out,
       budget, horizon, fresh >>

Procs == 1..NumProcs
Reapers == 1..NumReapers

NoLoc == [ op |-> "none" ]
NoOut == [ op |-> "none" ]
Lapsed == [ at |-> 0 - 1, pinged |-> FALSE ]

Response(op, status, body) == [ op |-> op, status |-> status, body |-> body ]

\* the server after start-up, under the bounds of a specification
InitWith(reqs, time) ==
    /\ budget = reqs
    /\ horizon = time
    /\ participants = <<>>
    /\ messages = <<>>
    /\ nextId = 1
    /\ now = 0
    /\ nextFire = ReapPeriod
    /\ pc = [ p \in Procs |-> "idle" ]
    /\ loc = [ p \in Procs |-> NoLoc ]
    /\ rpc = [ r \in Reapers |-> "idle" ]
    /\ rloc = [ r \in Reapers |-> NoLoc ]
    /\ out = NoOut
    /\ fresh = [ n \in Users |-> Lapsed ]

\* a request is taken by the first free handler
FreeProc(p) == pc[p] = "idle" /\ \A q \in Procs : q < p => pc[q] # "idle"
FreeReaper(r) == rpc[r] = "idle" /\ \A q \in Reapers : q < r => rpc[q] # "idle"

\* the handler reaches an await (a request is counted when it arrives)
Suspend(p, at, l) ==
    /\ pc[p] = "idle" => budget > 0
    /\ budget' = IF pc[p] = "idle" THEN budget - 1 ELSE budget
    /\ pc' = [pc EXCEPT ![p] = at]
    /\ loc' = [loc EXCEPT ![p] = l]
    /\ out' = NoOut

\* the handler sends its response
Respond(p, r) ==
    /\ pc[p] = "idle" => budget > 0
    /\ budget' = IF pc[p] = "idle" THEN budget - 1 ELSE budget
    /\ pc' = [pc EXCEPT ![p] = "idle"]
    /\ loc' = [loc EXCEPT ![p] = NoLoc]
    /\ out' = r

\* the client of name n is answered 201 to a register begun at ts
Registered(n, ts) ==
    IF n \in Users /\ now - ts < toMilliseconds
    THEN [fresh EXCEPT ![n] = [ at |-> ts, pinged |-> FALSE ]]
    ELSE fresh

\* the client of name n is answered 200 to a ping begun at ts; inTime tells
\* that the ping was sent in time after the client's previous answer
Pinged(n, ts, inTime) ==
    IF inTime /\ fresh[n] # Lapsed /\ now - ts < toMilliseconds
    THEN [fresh EXCEPT ![n] =
             [ at |-> IF fresh[n].at > ts THEN fresh[n].at ELSE ts, pinged |-> TRUE ]]
    ELSE fresh

\* The clock.  The timer fires on time, and a request is answered within
\* the unit of time it arrived in (a cycle of inactiveUser may take longer).
Tick ==
    /\ now < horizon
    /\ now < nextFire
    /\ \A p \in Procs : pc[p] = "idle"
    /\ now' = now + 1
    /\ fresh' = [ n \in Users |->
                    IF fresh[n] # Lapsed /\ now + 1 - fresh[n].at >= toMilliseconds
                    THEN Lapsed ELSE fresh[n] ]
    /\ out' = NoOut
    /\ UNCHANGED << participants, messages, nextId, nextFire, pc, loc, rpc,
                    rloc, budget, horizon >>

----------------------------------------------------------------------------
(* POST /participants *)

\* validation, then findOne by regex
Register(p, raw) ==
    /\ FreeProc(p)
    /\ LET name == Sanitize(raw)
       IN  IF ~ValidParticipant(raw)
           THEN Respond(p, Response("register", 422, <<>>))
           ELSE IF RegexExists(participants, name)
           THEN Respond(p, Response("register", 409, <<>>))
           ELSE Suspend(p, "reg_insert",
                        [ op |-> "register", name |-> name, lastStatus |-> now ])
    /\ UNCHANGED << participants, messages, nextId, now, nextFire, rpc, rloc,
                    horizon, fresh >>

\* participantCollection.insertOne({ name, lastStatus })
RegisterInsert(p) ==
    /\ pc[p] = "reg_insert"
    /\ participants' = Append(participants,
           [ id |-> nextId, name |-> loc[p].name, lastStatus |-> loc[p].lastStatus ])
    /\ nextId' = nextId + 1
    /\ Suspend(p, "reg_message",
               [ op |-> "register", name |-> loc[p].name,
                 lastStatus |-> loc[p].lastStatus, time |-> FormatTime(now) ])
    /\ UNCHANGED << messages, now, nextFire, rpc, rloc, horizon, fresh >>

\* messageCollection.insertOne(the join message); 201
RegisterMessage(p) ==
    /\ pc[p] = "reg_message"
    /\ messages' = Append(messages,
           [ id |-> nextId, from |-> loc[p].name, to |-> Todos, text |-> EnterText,
             type |-> TypeStatus, time |-> loc[p].time ])
    /\ nextId' = nextId + 1
    /\ fresh' = Registered(loc[p].name, loc[p].lastStatus)
    /\ Respond(p, Response("register", 201, <<>>))
    /\ UNCHANGED << participants, now, nextFire, rpc, rloc, horizon >>

----------------------------------------------------------------------------
(* GET /participants *)

ListParticipants(p) ==
    /\ FreeProc(p)
    /\ Respond(p, Response("participants", 200, participants))
    /\ UNCHANGED << participants, messages, nextId, now, nextFire, rpc, rloc,
                    horizon, fresh >>

----------------------------------------------------------------------------
(* POST /messages *)

\* validation, then findOne by name
Send(p, user, b) ==
    /\ FreeProc(p)
    /\ IF ~ValidMessage(b) \/ ~NameExists(participants, user)
       THEN Respond(p, Response("send", 422, <<>>))
       ELSE Suspend(p, "send_insert",
                    [ op |-> "send", user |-> user, body |-> b,
                      time |-> FormatTime(now) ])
    /\ UNCHANGED << participants, messages, nextId, now, nextFire, rpc, rloc,
                    horizon, fresh >>

\* messageCollection.insertOne; 201
SendInsert(p) ==
    /\ pc[p] = "send_insert"
    /\ messages' = Append(messages,
           [ id   |-> nextId,
             from |-> Sanitize(loc[p].user),
             to   |-> Sanitize(loc[p].body.to),
             text |-> Sanitize(loc[p].body.text),
             type |-> Sanitize(loc[p].body.type),
             time |-> loc[p].time ])
    /\ nextId' = nextId + 1
    /\ Respond(p, Response("send", 201, <<>>))
    /\ UNCHANGED << participants, now, nextFire, rpc, rloc, horizon, fresh >>

----------------------------------------------------------------------------
(* GET /messages *)

\* findOne by name
List(p, user, q) ==
    /\ FreeProc(p)
    /\ IF ~NameExists(participants, user)
       THEN Respond(p, Response("list", 422, <<>>))
       ELSE Suspend(p, "list_find",
                    [ op |-> "list", user |-> user, query |-> q,
                      userExists |-> FindOneName(participants, user).id ])
    /\ UNCHANGED << participants, messages, nextId, now, nextFire, rpc, rloc,
                    horizon, fresh >>

\* find by the visibility filter; 200
ListFind(p) ==
    /\ pc[p] = "list_find"
    /\ Respond(p, Response("list", 200,
                  ListBody(FindVisible(messages, loc[p].user), ParseInt(loc[p].query))))
    /\ UNCHANGED << participants, messages, nextId, now, nextFire, rpc, rloc,
                    horizon, fresh >>

----------------------------------------------------------------------------
(* POST /status *)

\* findOne by name
Ping(p, user) ==
    /\ FreeProc(p)
    /\ IF ~NameExists(participants, user)
       THEN Respond(p, Response("ping", 404, <<>>))
       ELSE Suspend(p, "ping_update",
                    [ op |-> "ping", user |-> user, lastStatus |-> now,
                      inTime |-> fresh[user] # Lapsed ])
    /\ UNCHANGED << participants, messages, nextId, now, nextFire, rpc, rloc,
                    horizon, fresh >>

\* updateOne; 200
PingUpdate(p) ==
    /\ pc[p] = "ping_update"
    /\ participants' = SetLastStatus(participants, loc[p].user, loc[p].lastStatus)
    /\ fresh' = Pinged(loc[p].user, loc[p].lastStatus, loc[p].inTime)
    /\ Respond(p, Response("ping", 200, <<>>))
    /\ UNCHANGED << messages, nextId, now, nextFire, rpc, rloc, horizon >>

----------------------------------------------------------------------------
(* DELETE /messages/:id *)

\* the ids a client may name
IdInputs == { messages[i].id : i \in 1..Len(messages) } \cup { AbsentId, BadId }

\* findOne by _id, the ownership check
Delete(p, user, id) ==
    /\ FreeProc(p)
    /\ IF id = BadId
       THEN Respond(p, Response("delete", 500, <<>>))
       ELSE IF ~MessageExists(messages, id)
       THEN Respond(p, Response("delete", 404, <<>>))
       ELSE IF ~IsOwner(MessageById(messages, id), user)
       THEN Respond(p, Response("delete", 401, <<>>))
       ELSE Suspend(p, "delete_one", [ op |-> "delete", user |-> user, id |-> id ])
    /\ UNCHANGED << participants, messages, nextId, now, nextFire, rpc, rloc,
                    horizon, fresh >>

\* deleteOne; 200
DeleteOne(p) ==
    /\ pc[p] = "delete_one"
    /\ messages' = DeleteOneId(messages, loc[p].id)
    /\ Respond(p, Response("delete", 200, <<>>))
    /\ UNCHANGED << participants, nextId, now, nextFire, rpc, rloc, horizon,
                    fresh >>

----------------------------------------------------------------------------
(* PUT /messages/:id *)

\* validation, then findOne by name
Edit(p, user, id, b) ==
    /\ FreeProc(p)
    /\ IF ~ValidMessage(b) \/ ~NameExists(participants, user)
       THEN Respond(p, Response("edit", 422, <<>>))
       ELSE Suspend(p, "edit_find",
                    [ op |-> "edit", user |-> user, id |-> id, body |-> b ])
    /\ UNCHANGED << participants, messages, nextId, now, nextFire, rpc, rloc,
                    horizon, fresh >>

\* findOne by _id, the ownership check
EditFind(p) ==
    /\ pc[p] = "edit_find"
    /\ LET user == loc[p].user
           id   == loc[p].id
       IN  IF id = BadId
           THEN Respond(p, Response("edit", 500, <<>>))
           ELSE IF ~MessageExists(messages, id)
           THEN Respond(p, Response("edit", 404, <<>>))
           ELSE IF ~IsOwner(MessageById(messages, id), user)
           THEN Respond(p, Response("edit", 401, <<>>))
           ELSE Suspend(p, "edit_update",
                        [ op |-> "edit", user |-> user, id |-> id,
                          body |-> loc[p].body, time |-> FormatTime(now) ])
    /\ UNCHANGED << participants, messages, nextId, now, nextFire, rpc, rloc,
                    horizon, fresh >>

\* updateOne; 200
EditUpdate(p) ==
    /\ pc[p] = "edit_update"
    /\ messages' = UpdateOneId(messages, loc[p].id, loc[p].user, loc[p].body,
                               loc[p].time)
    /\ Respond(p, Response("edit", 200, <<>>))
    /\ UNCHANGED << participants, nextId, now, nextFire, rpc, rloc, horizon,
                    fresh >>

----------------------------------------------------------------------------
(* inactiveUser, every ReapPeriod *)

\* the timer fires: treshold = Date.now() - toMilliseconds
ReaperFire(r) ==
    /\ now = nextFire
    /\ FreeReaper(r)
    /\ nextFire' = nextFire + ReapPeriod
    /\ rpc' = [rpc EXCEPT ![r] = "find"]
    /\ rloc' = [rloc EXCEPT ![r] =
                   [ op |-> "reap", cycleTime |-> now,
                     treshold |-> now - toMilliseconds ]]
    /\ out' = NoOut
    /\ UNCHANGED << participants, messages, nextId, now, pc, loc, budget,
                    horizon, fresh >>

\* find the inactive participants (queried is the collection as it was read)
ReaperFind(r) ==
    /\ rpc[r] = "find"
    /\ LET inactiveUsers == FindInactive(participants, rloc[r].treshold)
       IN  IF Len(inactiveUsers) # 0
           THEN /\ rpc' = [rpc EXCEPT ![r] = "delete"]
                /\ rloc' = [rloc EXCEPT ![r] =
                               [ op |-> "reap", cycleTime |-> rloc[r].cycleTime,
                                 queried |-> participants,
                                 names |-> NamesOf(inactiveUsers) ]]
           ELSE /\ rpc' = [rpc EXCEPT ![r] = "idle"]
                /\ rloc' = [rloc EXCEPT ![r] = NoLoc]
    /\ out' = NoOut
    /\ UNCHANGED << participants, messages, nextId, now, nextFire, pc, loc,
                    budget, horizon, fresh >>

\* deleteMany by name (removed is what the call removed)
ReaperDelete(r) ==
    /\ rpc[r] = "delete"
    /\ participants' = DeleteManyNames(participants, rloc[r].names)
    /\ rpc' = [rpc EXCEPT ![r] = "insert"]
    /\ rloc' = [rloc EXCEPT ![r] =
                   [ op |-> "reap", cycleTime |-> rloc[r].cycleTime,
                     queried |-> rloc[r].queried,
                     names |-> rloc[r].names,
                     removed |-> SelectSeq(participants,
                                    LAMBDA d : d.name \in Range(rloc[r].names)),
                     time |-> FormatTime(now) ]]
    /\ fresh' = [ n \in Users |->
                    IF n \in Range(rloc[r].names) THEN Lapsed ELSE fresh[n] ]
    /\ out' = NoOut
    /\ UNCHANGED << messages, nextId, now, nextFire, pc, loc, budget, horizon >>

\* insertMany the leave messages
ReaperInsert(r) ==
    /\ rpc[r] = "insert"
    /\ messages' = messages \o LeaveMessages(rloc[r].names, nextId, rloc[r].time)
    /\ nextId' = nextId + Len(rloc[r].names)
    /\ rpc' = [rpc EXCEPT ![r] = "idle"]
    /\ rloc' = [rloc EXCEPT ![r] = NoLoc]
    /\ out' = NoOut
    /\ UNCHANGED << participants, now, nextFire, pc, loc, budget, horizon,
                    fresh >>

----------------------------------------------------------------------------
(* The server *)

\* the names and the limits the requests of Spec and SpecChat are drawn from
ChatNames == { NameAnn, NameAnna }
AllQueries == { <<>>, <<"1">> }

Next ==
    \/ Tick
    \/ \E p \in Procs, raw \in ChatNames : Register(p, raw)
    \/ \E p \in Procs : RegisterInsert(p)
    \/ \E p \in Procs : RegisterMessage(p)
    \/ \E p \in Procs : ListParticipants(p)
    \/ \E p \in Procs, user \in ChatNames, b \in Bodies : Send(p, user, b)
    \/ \E p \in Procs : SendInsert(p)
    \/ \E p \in Procs, user \in ChatNames, q \in AllQueries : List(p, user, q)
    \/ \E p \in Procs : ListFind(p)
    \/ \E p \in Procs, user \in ChatNames : Ping(p, user)
    \/ \E p \in Procs : PingUpdate(p)
    \/ \E p \in Procs, user \in ChatNames, id \in IdInputs : Delete(p, user, id)
    \/ \E p \in Procs : DeleteOne(p)
    \/ \E p \in Procs, user \in ChatNames, id \in IdInputs, b \in Bodies :
          Edit(p, user, id, b)
    \/ \E p \in Procs : EditFind(p)
    \/ \E p \in Procs : EditUpdate(p)
    \/ \E r \in Reapers : ReaperFire(r)
    \/ \E r \in Reapers : ReaperFind(r)
    \/ \E r \in Reapers : ReaperDelete(r)
    \/ \E r \in Reapers : ReaperInsert(r)

Spec == InitWith(AllReqs, AllTime) /\ [][Next]_vars


----------------------------------------------------------------------------
(* The room: registration, presence and the reaper, over every name *)

RoomNext ==
    \/ Tick
    \/ \E p \in Procs, raw \in RawNames : Register(p, raw)
    \/ \E p \in Procs : RegisterInsert(p)
    \/ \E p \in Procs : RegisterMessage(p)
    \/ \E p \in Procs : ListParticipants(p)
    \/ \E p \in Procs, user \in Users : Ping(p, user)
    \/ \E p \in Procs : PingUpdate(p)
    \/ \E r \in Reapers : ReaperFire(r)
    \/ \E r \in Reapers : ReaperFind(r)
    \/ \E r \in Reapers : ReaperDelete(r)
    \/ \E r \in Reapers : ReaperInsert(r)

SpecRoom == InitWith(RoomReqs, RoomTime) /\ [][RoomNext]_vars

----------------------------------------------------------------------------
(* Presence: one client that registers and pings, and the reaper *)

PresenceNext ==
    \/ Tick
    \/ \E p \in Procs : Register(p, NameAnn)
    \/ \E p \in Procs : RegisterInsert(p)
    \/ \E p \in Procs : RegisterMessage(p)
    \/ \E p \in Procs : Ping(p, NameAnn)
    \/ \E p \in Procs : PingUpdate(p)
    \/ \E r \in Reapers : ReaperFire(r)
    \/ \E r \in Reapers : ReaperFind(r)
    \/ \E r \in Reapers : ReaperDelete(r)
    \/ \E r \in Reapers : ReaperInsert(r)

SpecPresence == InitWith(PresenceReqs, PresenceTime) /\ [][PresenceNext]_vars

----------------------------------------------------------------------------
(* The chat: registering, sending, editing, deleting and the reaper, over two names *)

ChatNext ==
    \/ Tick
    \/ \E p \in Procs, raw \in ChatNames : Register(p, raw)
    \/ \E p \in Procs : RegisterInsert(p)
    \/ \E p \in Procs : RegisterMessage(p)
    \/ \E p \in Procs, user \in ChatNames, b \in Bodies : Send(p, user, b)
    \/ \E p \in Procs : SendInsert(p)
    \/ \E p \in Procs, user \in ChatNames, id \in IdInputs : Delete(p, user, id)
    \/ \E p \in Procs : DeleteOne(p)
    \/ \E p \in Procs, user \in ChatNames, id \in IdInputs, b \in Bodies :
          Edit(p, user, id, b)
    \/ \E p \in Procs : EditFind(p)
    \/ \E p \in Procs : EditUpdate(p)
    \/ \E r \in Reapers : ReaperFire(r)
    \/ \E r \in Reapers : ReaperFind(r)
    \/ \E r \in Reapers : ReaperDelete(r)
    \/ \E r \in Reapers : ReaperInsert(r)

SpecChat == InitWith(ChatReqs, ChatTime) /\ [][ChatNext]_vars

----------------------------------------------------------------------------
(* The round trip: one client registers, sends, edits and lists *)

TripNext ==
    \/ Tick
    \/ \E p \in Procs : Register(p, NameAnn)
    \/ \E p \in Procs : RegisterInsert(p)
    \/ \E p \in Procs : RegisterMessage(p)
    \/ \E p \in Procs, b \in Bodies : Send(p, NameAnn, b)
    \/ \E p \in Procs : SendInsert(p)
    \/ \E p \in Procs, id \in IdInputs, b \in Bodies : Edit(p, NameAnn, id, b)
    \/ \E p \in Procs : EditFind(p)
    \/ \E p \in Procs : EditUpdate(p)
    \/ \E p \in Procs, q \in AllQueries : List(p, NameAnn, q)
    \/ \E p \in Procs : ListFind(p)

SpecTrip == InitWith(TripReqs, TripTime) /\ [][TripNext]_vars

----------------------------------------------------------------------------
(* The return: a name is registered, evicted and registered again *)

ReturnNext ==
    \/ Tick
    \/ \E p \in Procs : Register(p, NameAnn)
    \/ \E p \in Procs : RegisterInsert(p)
    \/ \E p \in Procs : RegisterMessage(p)
    \/ \E p \in Procs, b \in Bodies : Send(p, NameAnn, b)
    \/ \E p \in Procs : SendInsert(p)
    \/ \E p \in Procs, q \in AllQueries : List(p, NameAnn, q)
    \/ \E p \in Procs : ListFind(p)
    \/ \E r \in Reapers : ReaperFire(r)
    \/ \E r \in Reapers : ReaperFind(r)
    \/ \E r \in Reapers : ReaperDelete(r)
    \/ \E r \in Reapers : ReaperInsert(r)

SpecReturn == InitWith(ReturnReqs, ReturnTime) /\ [][ReturnNext]_vars

----------------------------------------------------------------------------
(* The listing: GET /messages over the message collections of a room of    *)
(* three.  "^an", "ann" and "Anna" registered in this order (ids 1 to 6);  *)
(* each may since have deleted its own join message; then up to ListLen    *)
(* messages were sent.                                                     *)

SentKinds ==
    { [ from |-> NameAnn, to |-> Todos, text |-> <<"h", "i">>, type |-> TypeMessage ],
      [ from |-> NameAnn, to |-> NameAnna, text |-> <<"o", "i">>, type |-> TypePrivate ],
      [ from |-> NameAnna, to |-> NameAnn, text |-> <<"h", "i">>, type |-> TypePrivate ],
      [ from |-> NameHat, to |-> NameAnna, text |-> <<"h", "i">>, type |-> TypePrivate ] }

RoomOfThree ==
    << [ id |-> 1, name |-> NameHat, lastStatus |-> 0 ],
       [ id |-> 3, name |-> NameAnn, lastStatus |-> 0 ],
       [ id |-> 5, name |-> NameAnna, lastStatus |-> 0 ] >>

JoinMessages ==
    [ i \in 1..3 |->
        [ id |-> 2 * i, from |-> RoomOfThree[i].name, to |-> Todos,
          text |-> EnterText, type |-> TypeStatus, time |-> 0 ] ]

Stamped(kinds) ==
    [ i \in 1..Len(kinds) |->
        [ id |-> 6 + i, from |-> kinds[i].from, to |-> kinds[i].to,
          text |-> kinds[i].text, type |-> kinds[i].type, time |-> 0 ] ]

InitList ==
    /\ budget = 1
    /\ horizon = 0
    /\ participants = RoomOfThree
    /\ \E kept \in SUBSET (1..3), n \in 0..ListLen :
         \E sent \in [ 1..n -> SentKinds ] :
            /\ messages = SelectSeq(JoinMessages, LAMBDA m : m.id \in { 2 * i : i \in kept })
                             \o Stamped(sent)
            /\ nextId = 7 + n
    /\ now = 0
    /\ nextFire = ReapPeriod
    /\ pc = [ p \in Procs |-> "idle" ]
    /\ loc = [ p \in Procs |-> NoLoc ]
    /\ rpc = [ r \in Reapers |-> "idle" ]
    /\ rloc = [ r \in Reapers |-> NoLoc ]
    /\ out = NoOut
    /\ fresh = [ n \in Users |-> Lapsed ]

ListNext ==
    \/ \E p \in Procs, user \in Users, q \in LimitQueries : List(p, user, q)
    \/ \E p \in Procs : ListFind(p)

SpecList == InitList /\ [][ListNext]_vars

----------------------------------------------------------------------------
(* The claims *)

\* the visibility rule of the specification
VisibleTo(m, u) ==
    m.from = u \/ m.to = u \/ m.type = TypeMessage \/ m.type = TypeStatus

\* the messages visible to u, oldest first
Visible(M, u) == SelectSeq(M, LAMBDA m : VisibleTo(m, u))

\* handler p answers a listing in this step
ListAnswered(p) == pc[p] = "list_find" /\ pc'[p] = "idle"

\* the limit a listing was asked with
LimitOf(p) == ParseInt(loc[p].query)
Unlimited(p) == LimitOf(p).nan \/ LimitOf(p).val <= 0

\* C2: a listing without a limit returns a stored message if and only if the
\* user sent it, or it is addressed to the user, or its type is message or
\* status (so a private message between two others is not returned, and every
\* message of type message is)
C2_Visibility ==
    [][ \A p \in Procs :
          (ListAnswered(p) /\ Unlimited(p)) =>
             /\ out'.status = 200
             /\ Range(out'.body) \subseteq Range(messages)
             /\ \A i \in 1..Len(messages) :
                   (messages[i] \in Range(out'.body))
                       <=> VisibleTo(messages[i], loc[p].user) ]_vars

\* C2 witness: "^an" was answered a listing that holds a message of type
\* message and leaves out a private message that "ann" sent to "Anna"
C2_Witness ==
    /\ out.op = "list" /\ out.status = 200
    /\ Range(out.body) = Range(Visible(messages, NameHat))
    /\ \E i \in 1..Len(messages) :
          /\ messages[i].type = TypePrivate
          /\ messages[i].from = NameAnn /\ messages[i].to = NameAnna
          /\ messages[i] \notin Range(out.body)
    /\ \E j \in 1..Len(out.body) : out.body[j].type = TypeMessage

\* the last k elements of a sequence
LastOf(s, k) == SubSeq(s, Len(s) - Min(k, Len(s)) + 1, Len(s))

\* C3: a listing with a positive limit returns the last min(limit, n) of the n
\* visible messages, oldest first
C3_LimitedTail ==
    [][ \A p \in Procs :
          (ListAnswered(p) /\ ~Unlimited(p)) =>
             /\ out'.status = 200
             /\ out'.body = LastOf(Visible(messages, loc[p].user), LimitOf(p).val) ]_vars

\* C3 witness: a listing answered with the last two of five or more visible
\* messages
C3_Witness ==
    /\ out.op = "list" /\ out.status = 200
    /\ Len(out.body) = 2
    /\ \E u \in Users :
          /\ Len(Visible(messages, u)) >= 5
          /\ out.body = LastOf(Visible(messages, u), 2)
          /\ out.body[1].id < out.body[2].id

\* C4: a listing with a missing or non-positive limit returns all the visible
\* messages, oldest first
C4_UnlimitedChronological ==
    [][ \A p \in Procs :
          (ListAnswered(p) /\ Unlimited(p)) =>
             out'.body = Visible(messages, loc[p].user) ]_vars

\* a name with its letters folded to lower case
Folded(s) == [ i \in 1..Len(s) |-> Lower(s[i]) ]

\* C1: the participant collection never holds two participants whose names
\* are equal under case-insensitive comparison
C1_UniqueNames ==
    \A i, j \in 1..Len(participants) :
        i # j => Folded(participants[i].name) # Folded(participants[j].name)

\* sub occurs in s as a run of consecutive characters, case ignored
ContainsFolded(s, sub) ==
    \E k \in 0..(Len(s) - Len(sub)) :
        \A i \in 1..Len(sub) : Lower(s[k + i]) = Lower(sub[i])

\* C9: a register that arrives when no other request is in flight, and whose
\* name is, case ignored, the name of a participant or a part of it, is
\* answered Conflict: it is never let through to the inserts
C9_DuplicateConflicts ==
    [][ \A p \in Procs :
          (/\ \A q \in Procs : pc[q] = "idle"
           /\ pc'[p] = "reg_insert") =>
             ~\E i \in 1..Len(participants) :
                 ContainsFolded(participants[i].name, loc'[p].name) ]_vars

\* cycle r has made its deleteMany call and not yet finished
Deleted(r) == rpc[r] = "insert"

\* the participants a cycle's query read that were older than 10 s at the
\* cycle's time
StaleAtQuery(r) ==
    { d \in Range(rloc[r].queried) :
        d.lastStatus < rloc[r].cycleTime - toMilliseconds }

\* C7: once a cycle has deleted, no participant that its query read with
\* lastStatus < (cycle time - 10 s) is in the collection
C7_StaleEvicted ==
    \A r \in Reapers :
        Deleted(r) =>
            \A d \in StaleAtQuery(r) :
                ~\E i \in 1..Len(participants) : participants[i].id = d.id

\* C7 witness: a cycle has deleted a stale participant, and a participant its
\* query read that was not stale is still there
C7_Witness ==
    \E r \in Reapers :
        /\ Deleted(r)
        /\ StaleAtQuery(r) # {}
        /\ \E d \in Range(rloc[r].queried) \ StaleAtQuery(r) :
              \E i \in 1..Len(participants) : participants[i] = d

\* the leave messages among msgs that are from n
LeavesOf(msgs, n) ==
    { i \in 1..Len(msgs) :
        /\ msgs[i].from = n /\ msgs[i].to = Todos
        /\ msgs[i].text = LeaveText /\ msgs[i].type = TypeStatus }

\* the participants of name n among docs
NamedOf(docs, n) == { i \in 1..Len(docs) : docs[i].name = n }

\* no two of docs have the same name
NoTwins(docs) ==
    \A i, j \in 1..Len(docs) : i # j => docs[i].name # docs[j].name

\* C8: a cycle appends exactly one leave message for every participant it
\* removed, and nothing else (stated for the cycles that removed no two
\* participants of one name, so that it does not rest on C1)
C8_OneLeavePerDeparture ==
    [][ \A r \in Reapers :
          (rpc[r] = "insert" /\ rpc'[r] = "idle" /\ NoTwins(rloc[r].removed)) =>
             LET appended == SubSeq(messages', Len(messages) + 1, Len(messages'))
             IN  /\ SubSeq(messages', 1, Len(messages)) = messages
                 /\ \A n \in Users :
                       Cardinality(LeavesOf(appended, n))
                           = Cardinality(NamedOf(rloc[r].removed, n)) ]_vars

\* C10: the reaper never deletes a participant whose client has pinged
\* successfully, each time less than 10 s after its previous answered request
\* (stated for a collection with no two participants of one name, so that it
\* does not rest on C1)
C10_RegularClientKept ==
    [][ \A r \in Reapers :
          (rpc[r] = "delete" /\ rpc'[r] = "insert" /\ NoTwins(participants)) =>
             \A d \in Range(rloc'[r].removed) :
                 ~(fresh[d.name] # Lapsed /\ fresh[d.name].pinged) ]_vars

----------------------------------------------------------------------------
(* Ownership: PUT and DELETE /messages/:id *)

Stored(id) == MessageExists(messages, id)
OwnerOf(id) == MessageById(messages, id).from

\* the step sends the answer to the delete of message id that user asked of p
DeleteAnswered(p, user, id) ==
    \/ pc[p] = "idle" /\ pc'[p] = "idle" /\ Delete(p, user, id)
    \/ /\ pc[p] = "delete_one" /\ pc'[p] = "idle"
       /\ loc[p].user = user /\ loc[p].id = id

\* the step sends the answer to the edit of message id to b that user asked of p
EditAnswered(p, user, id, b) ==
    \/ pc[p] = "idle" /\ pc'[p] = "idle" /\ Edit(p, user, id, b)
    \/ /\ pc[p] \in { "edit_find", "edit_update" } /\ pc'[p] = "idle"
       /\ loc[p].user = user /\ loc[p].id = id /\ loc[p].body = b

\* the step sends the answer to an edit or a delete
OwnershipAnswered == out' # NoOut /\ out'.op \in { "edit", "delete" }

\* the step leaves both collections as they were
CollectionsKept == messages' = messages /\ participants' = participants

\* a message is modified or removed only by the write of a request whose user
\* is the message's from and whose id is the message's id
OnlyOwnersWrite ==
    \A m \in Range(messages) :
        m \notin Range(messages') =>
            \E p \in Procs :
                /\ pc[p] \in { "delete_one", "edit_update" } /\ pc'[p] = "idle"
                /\ loc[p].id = m.id /\ loc[p].user = m.from

\* C5 as stated: an edit (of a valid body) or a delete of a stored message by
\* a requester other than its from is answered 401 and leaves both collections
\* unchanged, and no message is modified or removed by a request of another
\* identity than its from
C5_NonOwnerUnauthorized ==
    [][ /\ OwnershipAnswered =>
           \A p \in Procs, user \in Users, id \in IdInputs :
              (pc'[p] = "idle" /\ Stored(id) /\ OwnerOf(id) # user) =>
                  /\ DeleteAnswered(p, user, id) =>
                         (out'.status = 401 /\ CollectionsKept)
                  /\ \A b \in Bodies :
                         (ValidMessage(b) /\ EditAnswered(p, user, id, b)) =>
                             (out'.status = 401 /\ CollectionsKept)
        /\ messages' # messages => OnlyOwnersWrite ]_vars

\* C5: a delete of a stored message by a requester other than its from is
\* answered 401; an edit of it is answered 422 when the body is invalid or the
\* requester is no participant, and 401 otherwise; either leaves both
\* collections unchanged, and no message is modified or removed by a request
\* of another identity than its from
C5_NonOwnerRefused ==
    [][ /\ OwnershipAnswered =>
           \A p \in Procs, user \in Users, id \in IdInputs :
              (pc'[p] = "idle" /\ Stored(id) /\ OwnerOf(id) # user) =>
                  /\ DeleteAnswered(p, user, id) =>
                         (out'.status = 401 /\ CollectionsKept)
                  /\ \A b \in Bodies :
                         EditAnswered(p, user, id, b) =>
                             /\ CollectionsKept
                             /\ pc[p] # "edit_update"
                             /\ pc[p] = "edit_find" => out'.status = 401
                             /\ pc[p] = "idle" =>
                                   /\ out'.status = 422
                                   /\ ~ValidMessage(b) \/ ~NameExists(participants, user)
        /\ messages' # messages => OnlyOwnersWrite ]_vars

\* C5 witness: a participant's edit of a message of another has just been
\* answered 401
C5_Witness ==
    /\ out = Response("edit", 401, <<>>)
    /\ \E i \in 1..Len(messages) : \E j \in 1..Len(participants) :
          participants[j].name # messages[i].from

\* messages' is messages without the one record of this id
RemovedOnly(id) ==
    \E k \in 1..Len(messages) :
        /\ messages[k].id = id
        /\ messages' = SubSeq(messages, 1, k - 1) \o SubSeq(messages, k + 1, Len(messages))

\* messages' is messages but for the record of this id, which keeps its id and
\* its from and takes the sanitized to, text and type of b
EditedOnly(id, b) ==
    /\ Len(messages') = Len(messages)
    /\ \A i \in 1..Len(messages) :
          IF messages[i].id # id
          THEN messages'[i] = messages[i]
          ELSE /\ messages'[i].id = id
               /\ messages'[i].from = messages[i].from
               /\ messages'[i].to = Trim(StripHtml(b.to))
               /\ messages'[i].text = Trim(StripHtml(b.text))
               /\ messages'[i].type = b.type

\* C6 as stated: an edit (of a valid body) or a delete of a stored message by
\* its owner is answered 200 and changes exactly that record, the other
\* messages, their order and the participants staying as they were
C6_OwnerSucceeds ==
    [][ OwnershipAnswered =>
        \A p \in Procs, user \in Users, id \in IdInputs :
          (pc'[p] = "idle" /\ Stored(id) /\ OwnerOf(id) = user) =>
              /\ DeleteAnswered(p, user, id) =>
                     /\ out'.status = 200
                     /\ RemovedOnly(id)
                     /\ participants' = participants
              /\ \A b \in Bodies :
                     (ValidMessage(b) /\ EditAnswered(p, user, id, b)) =>
                         /\ out'.status = 200
                         /\ EditedOnly(id, b)
                         /\ participants' = participants ]_vars

\* C6: the owner's delete of a stored message is not refused, nor is the
\* owner's edit of it when the body is valid and the owner is a participant;
\* the write of a delete or an edit is answered 200, leaves the participants
\* unchanged and changes exactly the record of its id when that record is
\* still stored, and nothing when it is not
C6_OwnerWrites ==
    [][ \A p \in Procs :
          /\ (OwnershipAnswered /\ pc[p] = "idle") =>
                \A user \in Users, id \in IdInputs :
                    (Stored(id) /\ OwnerOf(id) = user) =>
                        /\ ~DeleteAnswered(p, user, id)
                        /\ \A b \in Bodies :
                              (ValidMessage(b) /\ NameExists(participants, user)) =>
                                  ~EditAnswered(p, user, id, b)
          /\ (/\ pc[p] = "edit_find" /\ pc'[p] # "edit_find"
              /\ Stored(loc[p].id) /\ OwnerOf(loc[p].id) = loc[p].user) =>
                 pc'[p] = "edit_update"
          /\ (pc[p] = "delete_one" /\ pc'[p] = "idle") =>
                /\ out'.status = 200
                /\ participants' = participants
                /\ IF Stored(loc[p].id)
                   THEN RemovedOnly(loc[p].id) ELSE messages' = messages
          /\ (pc[p] = "edit_update" /\ pc'[p] = "idle") =>
                /\ out'.status = 200
                /\ participants' = participants
                /\ IF Stored(loc[p].id)
                   THEN EditedOnly(loc[p].id, loc[p].body)
                   ELSE messages' = messages ]_vars

\* C6 witness: no cycle of inactiveUser has run, a delete has just been
\* answered 200, the record is gone and another message is still stored
C6_Witness ==
    /\ out = Response("delete", 200, <<>>)
    /\ nextFire = ReapPeriod
    /\ messages # <<>>
    /\ Len(participants) + Len(messages) < nextId - 1

----------------------------------------------------------------------------
(* Frames: who removes participants, and what a cycle does to the messages *)

\* the step is a step of a cycle of inactiveUser
CycleStep == rpc' # rpc

\* C14: a participant leaves the collection only in the deleteMany of a cycle
\* of inactiveUser that names it: no step of a request handler removes one
C14_OnlyReaperRemoves ==
    [][ \A i \in 1..Len(participants) :
          (\A j \in 1..Len(participants') : participants'[j].id # participants[i].id) =>
              /\ pc' = pc
              /\ \E r \in Reapers :
                    /\ rpc[r] = "delete" /\ rpc'[r] = "insert"
                    /\ participants[i].name \in Range(rloc[r].names) ]_vars

\* C14 witness: a cycle has just removed a participant, after two requests or
\* more were answered, and another participant is still there
C14_Witness ==
    /\ \E r \in Reapers : rpc[r] = "insert" /\ Len(rloc[r].removed) > 0
    /\ budget + 2 <= AllReqs
    /\ participants # <<>>

\* C15: a step of a cycle keeps every stored message as it is and where it is;
\* it appends nothing but leave messages, of type status, for the names it
\* read; and a cycle that finds no inactive participant changes neither
\* collection
C15_CycleKeepsMessages ==
    [][ CycleStep =>
          /\ Len(messages') >= Len(messages)
          /\ SubSeq(messages', 1, Len(messages)) = messages
          /\ \A k \in (Len(messages) + 1)..Len(messages') :
                /\ messages'[k].type = TypeStatus
                /\ messages'[k].to = Todos
                /\ messages'[k].text = LeaveText
                /\ \E r \in Reapers :
                      rpc[r] = "insert" /\ messages'[k].from \in Range(rloc[r].names)
          /\ \A r \in Reapers :
                (rpc[r] \in { "idle", "find" } /\ rpc'[r] # rpc[r]) =>
                    (messages' = messages /\ participants' = participants) ]_vars

\* C15 witness: a message that a participant sent is still stored, before the
\* leave message of that participant
C15_Witness ==
    /\ \E i, j \in 1..Len(messages) :
          /\ i < j
          /\ messages[i].from = messages[j].from
          /\ messages[i].type # TypeStatus
          /\ messages[j].type = TypeStatus /\ messages[j].text = LeaveText

----------------------------------------------------------------------------
(* What is stored: names and types *)

\* C16: every stored participant name has 3 to 20 characters and no markup
C16_StoredNamesValid ==
    \A i \in 1..Len(participants) :
        /\ StrLen(participants[i].name) >= MinLen
        /\ StrLen(participants[i].name) <= MaxLen
        /\ \A k \in 1..Len(participants[i].name) : participants[i].name[k] # Tag

\* C17: every stored message has type message, private_message or status, and
\* a message of type status is to "Todos" with the join or the leave text
C17_StatusOnlyFromSystem ==
    \A i \in 1..Len(messages) :
        /\ messages[i].type \in { TypeMessage, TypePrivate, TypeStatus }
        /\ messages[i].type = TypeStatus =>
              /\ messages[i].to = Todos
              /\ messages[i].text \in { EnterText, LeaveText }

\* C17 witness: a join message is stored, a message that was sent or edited is
\* stored with the type of its body, and an edit has just been answered 200
C17_Witness ==
    /\ out = Response("edit", 200, <<>>)
    /\ \E i, j \in 1..Len(messages) :
          /\ messages[i].type = TypeStatus /\ messages[i].text = EnterText
          /\ messages[j].type \in { TypeMessage, TypePrivate }

----------------------------------------------------------------------------
(* POST /messages and POST /status *)

\* a participant has exactly this name
Registers(P, user) == \E i \in 1..Len(P) : P[i].name = user

\* the first participant of this name
FirstNamed(P, user) ==
    CHOOSE i \in 1..Len(P) : P[i].name = user /\ \A j \in 1..(i - 1) : P[j].name # user

\* C12: a send by a user that no participant has the exact name of is answered
\* without a 201 and goes no further, leaving both collections unchanged; the
\* insert of a send is answered 201 and appends exactly one message, from the
\* user of the request and with the sanitized to, text and type of its body,
\* to unchanged messages and participants
C12_SendByParticipant ==
    [][ \A p \in Procs :
          /\ (pc[p] = "idle" /\ pc'[p] = "send_insert") =>
                Registers(participants, loc'[p].user)
          /\ (pc' = pc /\ out' # NoOut /\ out'.op = "send") =>
                /\ out'.status = 422
                /\ CollectionsKept
                /\ \A user \in Users, b \in Bodies :
                      (Send(p, user, b) /\ ValidMessage(b)) =>
                          ~Registers(participants, user)
          /\ (pc[p] = "send_insert" /\ pc'[p] = "idle") =>
                /\ out'.status = 201
                /\ participants' = participants
                /\ Len(messages') = Len(messages) + 1
                /\ SubSeq(messages', 1, Len(messages)) = messages
                /\ LET m == messages'[Len(messages')]
                   IN  /\ m.from = loc[p].user
                       /\ m.to = Trim(StripHtml(loc[p].body.to))
                       /\ m.text = Trim(StripHtml(loc[p].body.text))
                       /\ m.type = loc[p].body.type ]_vars

\* C12 witness: "Anna" is no participant and was refused a send, and the
\* private message that "ann" sent before is stored, from "ann"
C12_Witness ==
    /\ out = Response("send", 422, <<>>)
    /\ ~Registers(participants, NameAnna)
    /\ \E i \in 1..Len(messages) :
          /\ messages[i].from = NameAnn
          /\ messages[i].type = TypePrivate
          /\ messages[i].to = NameAnn

\* C13: a ping by a user that no participant has the exact name of is answered
\* 404 and changes nothing; the update of a ping, when a participant of the
\* name is stored, sets the lastStatus of the first such participant to the
\* current time, leaves every other participant and every message unchanged
\* and is answered 200
C13_PingSetsLastStatus ==
    [][ \A p \in Procs :
          /\ (pc[p] = "idle" /\ pc'[p] = "ping_update") =>
                Registers(participants, loc'[p].user)
          /\ (pc' = pc /\ out' # NoOut /\ out'.op = "ping") =>
                /\ out'.status = 404
                /\ CollectionsKept
                /\ \A user \in Users : Ping(p, user) => ~Registers(participants, user)
          /\ (/\ pc[p] = "ping_update" /\ pc'[p] = "idle"
              /\ Registers(participants, loc[p].user)) =>
                /\ out'.status = 200
                /\ messages' = messages
                /\ Len(participants') = Len(participants)
                /\ \A i \in 1..Len(participants) :
                      IF i = FirstNamed(participants, loc[p].user)
                      THEN participants'[i] =
                               [participants[i] EXCEPT !.lastStatus = now]
                      ELSE participants'[i] = participants[i] ]_vars

\* C13 witness: a ping has just been answered 200, the participant of that
\* name has the current time as lastStatus and another participant an older one
C13_Witness ==
    /\ out = Response("ping", 200, <<>>)
    /\ \E i, j \in 1..Len(participants) :
          /\ participants[i].lastStatus = now
          /\ participants[j].lastStatus < now
          /\ participants[i].name # participants[j].name

\* the last join or leave message of a user, 0 when there is none
LastStatusOf(M, user) ==
    LET S == { i \in 1..Len(M) : M[i].from = user /\ M[i].type = TypeStatus }
    IN  IF S = {} THEN 0 ELSE CHOOSE i \in S : \A j \in S : j <= i

\* C18: the insert of a send never puts a message of a user after the leave
\* message of that user, unless a join message of the user is stored in
\* between
C18_NoSendAfterLeave ==
    [][ \A p \in Procs :
          (pc[p] = "send_insert" /\ pc'[p] = "idle") =>
              LET k == LastStatusOf(messages, loc[p].user)
              IN  k # 0 => messages[k].text # LeaveText ]_vars

\* C19: when the update of a ping is answered 200, a participant of that name
\* is stored and its lastStatus is the time of the ping
C19_PingedIsPresent ==
    [][ \A p \in Procs :
          (pc[p] = "ping_update" /\ pc'[p] = "idle") =>
              /\ out'.status = 200
              /\ \E i \in 1..Len(participants') :
                    /\ participants'[i].name = loc[p].user
                    /\ participants'[i].lastStatus = loc[p].lastStatus ]_vars

----------------------------------------------------------------------------
(* The round trip register, send, edit, list *)

\* C11: the update of an owner's edit leaves the message where it is, with its
\* id and its from, and gives it the sanitized to, text and type of the body
\* and the current time; and a listing without a limit answered to a user
\* holds every stored message of that user as it is stored
C11_EditShownInListing ==
    [][ \A p \in Procs :
          /\ (pc[p] = "edit_update" /\ pc'[p] = "idle" /\ Stored(loc[p].id)) =>
                /\ out'.status = 200
                /\ EditedOnly(loc[p].id, loc[p].body)
                /\ \A i \in 1..Len(messages) :
                      messages[i].id = loc[p].id =>
                          messages'[i].time = FormatTime(now)
          /\ (ListAnswered(p) /\ Unlimited(p)) =>
                /\ out'.status = 200
                /\ \A i \in 1..Len(messages) :
                      messages[i].from = loc[p].user =>
                          messages[i] \in Range(out'.body) ]_vars

\* C11 witness: a listing has just been answered that holds two messages that
\* "ann" sent, the older one with the later time: it was edited after the other
\* was sent, and it is still stored before the other, after the join message
C11_Witness ==
    /\ out.op = "list" /\ out.status = 200
    /\ messages # <<>> /\ messages[1].type = TypeStatus
    /\ \E i, j \in 1..Len(messages) :
          /\ i < j
          /\ messages[i].id < messages[j].id
          /\ messages[i].time > messages[j].time
          /\ messages[i].from = NameAnn /\ messages[j].from = NameAnn
          /\ messages[i].type # TypeStatus /\ messages[j].type # TypeStatus
          /\ messages[i] \in Range(out.body) /\ messages[j] \in Range(out.body)

----------------------------------------------------------------------------
(* Private messages and the reuse of a name *)

\* C20: a listing answered to a user holds a private message from that name
\* only if the participant that the handler found for the user was registered
\* before the message was sent: the private messages that a previous holder
\* of the name sent are not returned to a later one
C20_PrivateToItsRegistration ==
    [][ \A p \in Procs :
          ListAnswered(p) =>
              \A k \in 1..Len(out'.body) :
                  (out'.body[k].type = TypePrivate /\ out'.body[k].from = loc[p].user) =>
                      loc[p].userExists < out'.body[k].id ]_vars

=============================================================================
